---- MODULE Spec2Model ----
(***************************************************************************)
(* Low-voltage inventory: the record store (LVInventoryManager) and the    *)
(* purchase-order reconciliation (ProcoreSyncManager) of                   *)
(* procore-lv-inventory.js, as a state machine.                            *)
(*                                                                         *)
(* toLowerCase and includes are computed character by character on the     *)
(* strings, as in JavaScript.                                              *)
(* An absent property of a JavaScript object is a field missing from the   *)
(* record's DOMAIN.                                                        *)
(***************************************************************************)
EXTENDS Integers, Sequences, FiniteSets, TLC

(***************************************************************************)
(* Bounds of the model.                                                    *)
(***************************************************************************)
\* the store holds at most this many records
MaxItems == 2
\* the largest quantity the item form enters
MaxQty == 3
\* the millisecond clock reads 1..MaxTime
MaxTime == 2
\* the UI collaborator makes at most this many calls of the manager's methods
MaxCalls == 1

(***************************************************************************)
(* JavaScript values.                                                      *)
(***************************************************************************)
\* the value of a property that is not there (newItem.id at line 1265)
Undefined == "undefined"

\* ''
EmptyString == ""

\* JavaScript truthiness of a string
Truthy(s) == s # EmptyString

\* String.prototype.toLowerCase, on the letters the model's strings use
LowerChar(c) ==
  CASE c = "A" -> "a" [] c = "B" -> "b" [] c = "C" -> "c" [] c = "D" -> "d"
    [] c = "E" -> "e" [] c = "F" -> "f" [] c = "G" -> "g" [] c = "H" -> "h"
    [] c = "I" -> "i" [] c = "J" -> "j" [] c = "K" -> "k" [] c = "L" -> "l"
    [] c = "M" -> "m" [] c = "N" -> "n" [] c = "O" -> "o" [] c = "P" -> "p"
    [] c = "Q" -> "q" [] c = "R" -> "r" [] c = "S" -> "s" [] c = "T" -> "t"
    [] c = "U" -> "u" [] c = "V" -> "v" [] c = "W" -> "w" [] c = "X" -> "x"
    [] c = "Y" -> "y" [] c = "Z" -> "z"
    [] OTHER -> c

\* lowered[i]: the first i letters of s, lowered
toLowerCase(s) ==
  LET lowered[i \in 0..Len(s)] ==
        IF i = 0 THEN "" ELSE lowered[i - 1] \o LowerChar(SubSeq(s, i, i))
  IN lowered[Len(s)]

\* String.prototype.includes: t occurs in s as a contiguous substring
includes(s, t) ==
  \E i \in 0..(Len(s) - Len(t)) : SubSeq(s, i + 1, i + Len(t)) = t

\* Number.prototype.toString, base 10, of a non-negative integer
Digit(d) ==
  CASE d = 0 -> "0" [] d = 1 -> "1" [] d = 2 -> "2" [] d = 3 -> "3"
    [] d = 4 -> "4" [] d = 5 -> "5" [] d = 6 -> "6" [] d = 7 -> "7"
    [] d = 8 -> "8" [] OTHER -> "9"

RECURSIVE toString(_)
toString(n) == IF n < 10 THEN Digit(n) ELSE toString(n \div 10) \o Digit(n % 10)

(***************************************************************************)
(* The strings the model's inputs are built from.                          *)
(***************************************************************************)
Cat6Cable == "Cat6 cable"
CableUpper == "CABLE"
FiberPatch == "Fiber patch"
PatchPanel == "panel"
PartA == "PN-A"
PartB == "PN-B"
FromPO == "From PO"
Warehouse == "WH"
Each == "Each"
ProjectId == "7"

(***************************************************************************)
(* LVInventoryItem (lines 149-202).                                        *)
(***************************************************************************)
\* data.id || null
Null == "null"

\* data.f || d, for a default d that is the falsy value of f's type
OrDefault(data, f, d) == IF f \in DOMAIN data THEN data[f] ELSE d

\* { ...a, ...b }: the properties of b override those of a
Spread(a, b) ==
  [f \in DOMAIN a \cup DOMAIN b |-> IF f \in DOMAIN b THEN b[f] ELSE a[f]]

\* new LVInventoryItem(data) at clock reading t
LVInventoryItem(data, t) ==
  [ id |-> OrDefault(data, "id", Null),
    projectId |-> OrDefault(data, "projectId", Null),
    category |-> OrDefault(data, "category", EmptyString),
    subCategory |-> OrDefault(data, "subCategory", EmptyString),
    manufacturer |-> OrDefault(data, "manufacturer", EmptyString),
    partNumber |-> OrDefault(data, "partNumber", EmptyString),
    description |-> OrDefault(data, "description", EmptyString),
    unitOfMeasure |-> OrDefault(data, "unitOfMeasure", EmptyString),
    quantityAvailable |-> OrDefault(data, "quantityAvailable", 0),
    quantityAllocated |-> OrDefault(data, "quantityAllocated", 0),
    reorderThreshold |-> OrDefault(data, "reorderThreshold", 0),
    reorderQuantity |-> OrDefault(data, "reorderQuantity", 0),
    location |-> OrDefault(data, "location", EmptyString),
    cost |-> OrDefault(data, "cost", 0),
    lastUpdated |-> OrDefault(data, "lastUpdated", t),
    createdAt |-> OrDefault(data, "createdAt", t) ]

\* get totalQuantity
totalQuantity(item) == item.quantityAvailable + item.quantityAllocated

\* needsReorder comparing with < : a record at its threshold is not flagged
needsReorderBelow(item) == item.quantityAvailable < item.reorderThreshold

\* get needsReorder
needsReorder(item) == item.quantityAvailable <= item.reorderThreshold

(***************************************************************************)
(* LVInventoryManager (lines 208-429): each method as a function of the    *)
(* store its, its arguments and the clock reading t, giving the error      *)
(* thrown ("none" when it returns) and the store afterwards.               *)
(***************************************************************************)
\* items.findIndex(item => item.id === itemId), 0 for -1
findIndex(its, itemId) ==
  IF \E i \in 1..Len(its) : its[i].id = itemId
  THEN CHOOSE i \in 1..Len(its) :
         /\ its[i].id = itemId
         /\ \A j \in 1..(i - 1) : its[j].id # itemId
  ELSE 0

\* Date.now().toString() with the clock reading t
newId(t) == toString(t)

addItem(its, itemData, t) ==
  Append(its, LVInventoryItem(
    Spread(itemData, [id |-> newId(t), createdAt |-> t, lastUpdated |-> t]), t))

updateItem(its, itemId, updates, t) ==
  LET index == findIndex(its, itemId) IN
  IF index = 0
  THEN [error |-> "NotFound", items |-> its]
  ELSE [error |-> "none",
        items |-> [its EXCEPT ![index] =
          LVInventoryItem(Spread(Spread(its[index], updates), [lastUpdated |-> t]), t)]]

\* deleteItem with the test of lines 309-311 left out: splice(-1, 1) removes
\* the last record
deleteItemNoCheck(its, itemId) ==
  LET index == findIndex(its, itemId) IN
  IF index = 0
  THEN [error |-> "none", items |-> SubSeq(its, 1, Len(its) - 1)]
  ELSE [error |-> "none",
        items |-> SubSeq(its, 1, index - 1) \o SubSeq(its, index + 1, Len(its))]

deleteItem(its, itemId) ==
  LET index == findIndex(its, itemId) IN
  IF index = 0
  THEN [error |-> "NotFound", items |-> its]
  ELSE [error |-> "none",
        items |-> SubSeq(its, 1, index - 1) \o SubSeq(its, index + 1, Len(its))]

\* adjustAllocation with the test of line 326 left out
adjustAllocationUnchecked(item, quantityChange) ==
  [error |-> "none",
   item |-> [item EXCEPT !.quantityAvailable = @ - quantityChange,
                         !.quantityAllocated = @ + quantityChange]]

\* adjustAllocation with line 331 left out
adjustAllocationOneSided(item, quantityChange) ==
  IF quantityChange > 0 /\ item.quantityAvailable < quantityChange
  THEN [error |-> "InsufficientStock", item |-> item]
  ELSE [error |-> "none", item |-> [item EXCEPT !.quantityAvailable = @ - quantityChange]]

\* lines 324-331: isAllocation
adjustAllocation(item, quantityChange) ==
  IF quantityChange > 0 /\ item.quantityAvailable < quantityChange
  THEN [error |-> "InsufficientStock", item |-> item]
  ELSE [error |-> "none",
        item |-> [item EXCEPT !.quantityAvailable = @ - quantityChange,
                              !.quantityAllocated = @ + quantityChange]]

\* adjustStock with the floor of lines 335-337 left out
adjustStockNoFloor(item, quantityChange) ==
  [error |-> "none",
   item |-> [item EXCEPT !.quantityAvailable = @ + quantityChange]]

\* lines 332-338: stock
adjustStock(item, quantityChange) ==
  LET sum == item.quantityAvailable + quantityChange IN
  [error |-> "none",
   item |-> [item EXCEPT !.quantityAvailable = IF sum < 0 THEN 0 ELSE sum]]

\* adjustQuantity putting the record it changed at the head of the store
adjustQuantityToFront(its, itemId, quantityChange, isAllocation, t) ==
  LET index == findIndex(its, itemId) IN
  IF index = 0
  THEN [error |-> "NotFound", items |-> its]
  ELSE LET r == IF isAllocation
                THEN adjustAllocation(its[index], quantityChange)
                ELSE adjustStock(its[index], quantityChange)
       IN IF r.error # "none"
          THEN [error |-> r.error, items |-> its]
          ELSE [error |-> "none",
                items |-> << [r.item EXCEPT !.lastUpdated = t] >>
                          \o SubSeq(its, 1, index - 1) \o SubSeq(its, index + 1, Len(its))]

\* lines 318-342
adjustQuantity(its, itemId, quantityChange, isAllocation, t) ==
  LET index == findIndex(its, itemId) IN
  IF index = 0
  THEN [error |-> "NotFound", items |-> its]
  ELSE LET r == IF isAllocation
                THEN adjustAllocation(its[index], quantityChange)
                ELSE adjustStock(its[index], quantityChange)
       IN IF r.error # "none"
          THEN [error |-> r.error, items |-> its]
          ELSE [error |-> "none",
                items |-> [its EXCEPT ![index] = [r.item EXCEPT !.lastUpdated = t]]]

\* this.items.filter(item => item.needsReorder)
getItemsNeedingReorder(its) == SelectSeq(its, needsReorder)

\* the ghost identities, kept beside the store by deleteItem
removeAt(s, index) == SubSeq(s, 1, index - 1) \o SubSeq(s, index + 1, Len(s))

(***************************************************************************)
(* ProcoreSyncManager: the pure helpers (lines 1283-1344).                 *)
(***************************************************************************)
\* line 1286
lvKeywords ==
  << "low voltage",
     "lv",
     "communications",
     "data",
     "telecom",
     "network",
     "cable" >>

\* po.f?.toLowerCase().includes(keyword): false when po has no f
optIncludes(po, f, keyword) ==
  f \in DOMAIN po /\ includes(toLowerCase(po[f]), keyword)

\* isLowVoltagePO looking at the title only
isLowVoltagePOByTitle(po) ==
  \E k \in 1..Len(lvKeywords) : optIncludes(po, "title", lvKeywords[k])

isLowVoltagePO(po) ==
  \E k \in 1..Len(lvKeywords) :
    optIncludes(po, "title", lvKeywords[k]) \/ optIncludes(po, "description", lvKeywords[k])

\* the predicate of the find at lines 1298-1301
lineMatches(item, lineItem) ==
  \/ /\ "part_number" \in DOMAIN lineItem
     /\ Truthy(lineItem.part_number)
     /\ item.partNumber = lineItem.part_number
  \/ includes(toLowerCase(item.description), toLowerCase(lineItem.description))

\* findMatchingInventoryItem scanning from the end of the store: the last
\* record that matches
findLastMatchingInventoryItem(its, lineItem) ==
  IF \E i \in 1..Len(its) : lineMatches(its[i], lineItem)
  THEN CHOOSE i \in 1..Len(its) :
         /\ lineMatches(its[i], lineItem)
         /\ \A j \in (i + 1)..Len(its) : ~lineMatches(its[j], lineItem)
  ELSE 0

\* the index of the record items.find returns, 0 when it returns undefined
findMatchingInventoryItem(its, lineItem) ==
  IF \E i \in 1..Len(its) : lineMatches(its[i], lineItem)
  THEN CHOOSE i \in 1..Len(its) :
         /\ lineMatches(its[i], lineItem)
         /\ \A j \in 1..(i - 1) : ~lineMatches(its[j], lineItem)
  ELSE 0

\* the rule table of lines 1330-1341, in its order: category, keywords
categoryRules ==
  << [category |-> "Cable",
      keywords |-> {"cable", "wire"}],
     [category |-> "Connectors",
      keywords |-> {"connector", "terminal"}],
     [category |-> "Devices",
      keywords |-> {"camera", "sensor"}],
     [category |-> "Network Equipment",
      keywords |-> {"switch", "router", "access point"}],
     [category |-> "Access Control",
      keywords |-> {"card reader", "door"}],
     [category |-> "Audio/Visual",
      keywords |-> {"speaker", "microphone", "projector"}],
     [category |-> "Security",
      keywords |-> {"alarm", "motion", "security"}],
     [category |-> "Telecommunications",
      keywords |-> {"phone", "telecom"}],
     [category |-> "Fiber Optics",
      keywords |-> {"fiber"}],
     [category |-> "Tools",
      keywords |-> {"tool"}],
     [category |-> "Mounting Hardware",
      keywords |-> {"bracket", "mount"}],
     [category |-> "Conduit & Raceways",
      keywords |-> {"conduit", "raceway", "tray"}] >>

Other == "Other"

\* determineCategoryFromDescription letting a later rule override an earlier
\* one: the last rule that matches wins
determineCategoryByLastRule(description) ==
  LET desc == toLowerCase(description)
      hit(k) == \E w \in categoryRules[k].keywords : includes(desc, w)
  IN IF \E k \in 1..Len(categoryRules) : hit(k)
     THEN categoryRules[CHOOSE k \in 1..Len(categoryRules) :
            hit(k) /\ \A j \in (k + 1)..Len(categoryRules) : ~hit(j)].category
     ELSE Other

determineCategoryFromDescription(description) ==
  LET desc == toLowerCase(description)
      hit(k) == \E w \in categoryRules[k].keywords : includes(desc, w)
  IN IF \E k \in 1..Len(categoryRules) : hit(k)
     THEN categoryRules[CHOOSE k \in 1..Len(categoryRules) :
            hit(k) /\ \A j \in 1..(k - 1) : ~hit(j)].category
     ELSE Other

\* Math.floor(quantity * 0.2) for a non-negative integer quantity: the double
\* nearest 0.2 lies above 1/5, so the product never falls below quantity / 5
reorderThresholdDefault(quantity) == quantity \div 5

\* lineItem.received_quantity || 0
receivedQuantity(lineItem) == OrDefault(lineItem, "received_quantity", 0)

\* line 1254
quantityChangeOf(lineItem) == lineItem.quantity - receivedQuantity(lineItem)

\* createInventoryItemFromPOLine stocking what is still to be received
createInventoryItemOutstanding(lineItem, projectId) ==
  [ projectId |-> projectId,
    category |-> determineCategoryFromDescription(lineItem.description),
    subCategory |-> EmptyString,
    manufacturer |-> OrDefault(lineItem, "manufacturer", EmptyString),
    partNumber |-> OrDefault(lineItem, "part_number", EmptyString),
    description |-> lineItem.description,
    unitOfMeasure |-> OrDefault(lineItem, "unit", Each),
    quantityAvailable |-> quantityChangeOf(lineItem),
    quantityAllocated |-> 0,
    reorderThreshold |-> reorderThresholdDefault(lineItem.quantity),
    reorderQuantity |-> lineItem.quantity,
    location |-> FromPO,
    cost |-> OrDefault(lineItem, "unit_cost", 0) ]

\* the plain object of lines 1309-1323: it has no id property
createInventoryItemFromPOLine(lineItem, projectId) ==
  [ projectId |-> projectId,
    category |-> determineCategoryFromDescription(lineItem.description),
    subCategory |-> EmptyString,
    manufacturer |-> OrDefault(lineItem, "manufacturer", EmptyString),
    partNumber |-> OrDefault(lineItem, "part_number", EmptyString),
    description |-> lineItem.description,
    unitOfMeasure |-> OrDefault(lineItem, "unit", Each),
    quantityAvailable |-> lineItem.quantity,
    quantityAllocated |-> 0,
    reorderThreshold |-> reorderThresholdDefault(lineItem.quantity),
    reorderQuantity |-> lineItem.quantity,
    location |-> FromPO,
    cost |-> OrDefault(lineItem, "unit_cost", 0) ]

\* newItem.id at line 1265, for the plain object newItem
idOf(obj) == OrDefault(obj, "id", Undefined)

\* isReceivable taking a draft for an order to receive
isReceivableLoose(po) == po.status \in { "Approved", "Closed", "Draft" }

\* po.status === 'Approved' || po.status === 'Closed'
isReceivable(po) == po.status = "Approved" \/ po.status = "Closed"

(***************************************************************************)
(* Inputs: what the UI collaborator submits and what the vendor returns.   *)
(***************************************************************************)
\* the form of lines 840-853 (its number inputs have min="0")
FormData(partNumber, description, quantityAvailable, quantityAllocated) ==
  [ category |-> "Cable",
    subCategory |-> EmptyString,
    manufacturer |-> EmptyString,
    partNumber |-> partNumber,
    description |-> description,
    unitOfMeasure |-> Each,
    cost |-> 2,
    quantityAvailable |-> quantityAvailable,
    quantityAllocated |-> quantityAllocated,
    reorderThreshold |-> 1,
    reorderQuantity |-> 2,
    location |-> Warehouse,
    projectId |-> ProjectId ]

Forms ==
  { FormData(PartB, PatchPanel, MaxQty, 1),
    FormData(PartA, FiberPatch, 0, 0) }

\* an id no record has: the clock starts at 1
MissingId == toString(0)

\* the edit form's submission for an existing record
Updates == { FormData(PartB, Cat6Cable, 1, 0) }

\* the adjust form (lines 975-991): add, remove, allocate, return from the
\* project
Adjustments ==
  { [quantityChange |-> 2, isAllocation |-> FALSE],
    [quantityChange |-> -5, isAllocation |-> FALSE],
    [quantityChange |-> 5, isAllocation |-> TRUE],
    [quantityChange |-> -1, isAllocation |-> TRUE] }

\* purchase-order line items
LineCat6 == [ description |-> Cat6Cable, quantity |-> 10, received_quantity |-> 2 ]
LineFiber == [ description |-> FiberPatch, quantity |-> 3 ]
LinePartBReceived ==
  [ part_number |-> PartB, description |-> "Patch panel", quantity |-> 5, received_quantity |-> 5 ]
LinePartAOpen ==
  [ part_number |-> PartA, description |-> CableUpper, quantity |-> 3, received_quantity |-> 1 ]

\* purchase orders, each with the line items the vendor lists for it
POCabling ==
  [ id |-> 1, title |-> "LV Cabling", status |-> "Closed",
    lineItems |-> <<LineCat6, LineFiber, LineFiber>> ]
PONetwork ==
  [ id |-> 2, title |-> "Switches", description |-> "Network gear",
    status |-> "Approved", lineItems |-> <<LinePartAOpen, LinePartBReceived>> ]
PODraft ==
  [ id |-> 3, title |-> "CABLE order", status |-> "Draft",
    lineItems |-> <<LineCat6, LinePartAOpen>> ]
POPaint ==
  [ id |-> 4, title |-> "Paint", status |-> "Closed",
    lineItems |-> <<LineCat6>> ]

PurchaseOrders == { POCabling, PONetwork, PODraft, POPaint }

\* the vendor's answer lists at most this many purchase orders
MaxOrders == 2

\* the lists of at most n elements of S, each element at most once (a
\* purchase order is listed once)
RECURSIVE ListsUpTo(_, _)
ListsUpTo(S, n) ==
  IF n = 0 THEN { <<>> }
  ELSE LET shorter == ListsUpTo(S, n - 1)
       IN shorter \cup
          UNION { { Append(q, x) : x \in { y \in S : \A i \in 1..Len(q) : q[i] # y } } :
                  q \in shorter }

PurchaseOrderLists == ListsUpTo(PurchaseOrders, MaxOrders)

(***************************************************************************)
(* ProcoreAPI (lines 18-143): the tokens. A token is a JavaScript value:   *)
(* null, undefined or a string; localStorage holds strings.                *)
(***************************************************************************)
NullValue == [type |-> "null"]

UndefinedValue == [type |-> "undefined"]

Str(s) == [type |-> "string", value |-> s]

\* String(v), as localStorage.setItem and a template literal apply it
String(v) == IF v.type = "string" THEN v.value ELSE v.type

\* JavaScript truthiness of a token
IsTruthy(v) == v.type = "string" /\ v.value # EmptyString

\* data.f of a parsed response body
Prop(data, f) == IF f \in DOMAIN data THEN Str(data[f]) ELSE UndefinedValue

\* localStorage.getItem(key)
getItem(storage, key) == IF key \in DOMAIN storage THEN Str(storage[key]) ELSE NullValue

\* line 90: data.expires_in || 7200
DefaultExpiresIn == 7200

\* Date.prototype.toString keeps whole seconds: the text is modelled by the
\* number of seconds it spells, and new Date(text) gives that instant back
DateToString(ms) == ms \div 1000

DateParse(text) == text * 1000

\* the fields of a ProcoreAPI after its constructor (lines 23-25); the
\* expiry is a list of at most one instant, none for null
NewProcoreAPI == [accessToken |-> NullValue, refreshToken |-> NullValue, tokenExpiry |-> <<>>]

\* setTokens (lines 85-97) at clock reading t: the fields, and the entries
\* of localStorage afterwards
setTokens(data, t) ==
  LET expiresIn == IF "expires_in" \in DOMAIN data /\ data.expires_in # 0
                   THEN data.expires_in ELSE DefaultExpiresIn
      tokenExpiry == t + expiresIn * 1000
  IN [ api |-> [accessToken |-> Prop(data, "access_token"),
                refreshToken |-> Prop(data, "refresh_token"),
                tokenExpiry |-> <<tokenExpiry>>],
       stored |-> [accessToken |-> String(Prop(data, "access_token")),
                   refreshToken |-> String(Prop(data, "refresh_token")),
                   tokenExpiry |-> DateToString(tokenExpiry)] ]

\* loadTokens (lines 100-105)
loadTokens(storage) ==
  [ accessToken |-> getItem(storage, "accessToken"),
    refreshToken |-> getItem(storage, "refreshToken"),
    tokenExpiry |-> IF "tokenExpiry" \in DOMAIN storage
                    THEN <<DateParse(storage.tokenExpiry)>> ELSE <<>> ]

\* authenticate (lines 29-43) at clock reading t, up to its first await:
\* which of its three ways it takes
authenticate(api, t) ==
  IF IsTruthy(api.accessToken) /\ api.tokenExpiry # <<>> /\ t < api.tokenExpiry[1]
  THEN "token"
  ELSE IF IsTruthy(api.refreshToken) THEN "refresh" ELSE "redirect"

\* what the token endpoint answers: a grant, with or without expires_in, or
\* an OAuth error body
TokenGrant == [access_token |-> "tokenB", refresh_token |-> "refreshB", expires_in |-> 3600]

TokenGrantNoExpiry == [access_token |-> "tokenC", refresh_token |-> "refreshC"]

TokenError == [error |-> "invalid_grant"]

TokenResponses == { TokenGrant, TokenGrantNoExpiry, TokenError }

\* the Authorization header of line 116
authorization(token) == "Bearer " \o String(token)

(***************************************************************************)
(* State.                                                                  *)
(***************************************************************************)
VARIABLES
  items,       \* LVInventoryManager.items
  now,         \* the reading of the millisecond clock (Date.now(), new Date())
  sync,        \* each syncWithPurchaseOrders call: where it is, and its locals
  upstream,    \* the vendor's persisted inventory collections, by project
  localStore,  \* localStorage's inventory_<project> entries, by project
  calls,       \* history: the number of calls the UI collaborator has made
  uids,        \* history: for each record of items, an identity that is not its id
  last,        \* history: the last call, its arguments, its outcome, the store before
  procoreApi,  \* the fields of the ProcoreAPI object: the tokens and their expiry
  tokens,      \* localStorage's accessToken, refreshToken and tokenExpiry entries
  page         \* the page: where LVInventoryUI.initialize is, what is shown, what was sent

vars == <<items, now, sync, upstream, localStore, calls, uids, last, procoreApi, tokens, page>>

\* the page before DOMContentLoaded; sent is the history of the requests
\* made to the vendor's API, failed that of a token request gone wrong,
\* currentProject the id of LVInventoryUI.currentProject, opening the
\* project loadProject was called for, saving the calls of saveInventory
\* the handlers made and did not await, clicks and opens the numbers of
\* handler and loadProject calls
ClosedPage ==
  [ pc |-> "closed", caller |-> "none", view |-> "blank", redirected |-> FALSE,
    requests |-> 0, failed |-> "none", sent |-> <<>>, loads |-> 0,
    currentProject |-> "none", opening |-> "none", saving |-> <<>>, clicks |-> 0, opens |-> 0 ]

\* a browser that holds no tokens and has not loaded the page
NoSession ==
  /\ procoreApi = NewProcoreAPI
  /\ tokens = <<>>
  /\ page = ClosedPage

\* the calls of syncWithPurchaseOrders the specification follows
Runs == { "run1" }

\* a call that has not been made
IdleRun ==
  [ pc |-> "idle", purchaseOrders |-> <<>>, poIdx |-> 0, lineItems |-> <<>>, liIdx |-> 0,
    updatedItems |-> {}, saveBody |-> <<>>, result |-> 0,
    touched |-> {}, saves |-> 0 ]

\* positions inside a stretch of code with no await: nothing else runs there
Synchronous == { "nextPO", "lines" }

Quiescent == \A r \in DOMAIN sync : sync[r].pc \notin Synchronous

\* item.toJSON() (lines 181-201)
toJSON(item) ==
  [ id |-> item.id, projectId |-> item.projectId, category |-> item.category,
    subCategory |-> item.subCategory, manufacturer |-> item.manufacturer,
    partNumber |-> item.partNumber, description |-> item.description,
    unitOfMeasure |-> item.unitOfMeasure, quantityAvailable |-> item.quantityAvailable,
    quantityAllocated |-> item.quantityAllocated, reorderThreshold |-> item.reorderThreshold,
    reorderQuantity |-> item.reorderQuantity, location |-> item.location,
    cost |-> item.cost, lastUpdated |-> item.lastUpdated, createdAt |-> item.createdAt ]

\* this.items.map(item => item.toJSON())
serialize(its) == [i \in 1..Len(its) |-> toJSON(its[i])]

\* a store with the collection of project p replaced
put(store, p, collection) ==
  [q \in DOMAIN store \cup {p} |-> IF q = p THEN collection ELSE store[q]]

\* history: the identities in use, and the n-th smallest of those that are not
unusedUids ==
  { u \in 1..(MaxItems * (MaxCalls + 3) + 8) :
      /\ \A i \in 1..Len(uids) : uids[i] # u
      /\ \A r \in DOMAIN sync : u \notin sync[r].touched }

nthUnusedUid(n) ==
  CHOOSE u \in unusedUids : Cardinality({ v \in unusedUids : v < u }) = n - 1

\* history: an identity no record of the store and no run's touched set uses
freshUid ==
  CHOOSE u \in 1..(MaxItems * (MaxCalls + 3) + 8) :
    /\ \A i \in 1..Len(uids) : uids[i] # u
    /\ \A r \in DOMAIN sync : u \notin sync[r].touched
    /\ \A v \in 1..(u - 1) :
         \/ \E i \in 1..Len(uids) : uids[i] = v
         \/ \E r \in DOMAIN sync : v \in sync[r].touched

Init ==
  /\ items = <<>>
  /\ now = 1
  /\ sync = [r \in Runs |-> IdleRun]
  /\ upstream = <<>>
  /\ localStore = <<>>
  /\ calls = 0
  /\ uids = <<>>
  /\ last = [op |-> "none"]
  /\ NoSession

(***************************************************************************)
(* The clock.                                                              *)
(***************************************************************************)
Tick ==
  /\ now < MaxTime
  /\ now' = now + 1
  /\ UNCHANGED <<procoreApi, tokens, page, items, sync, upstream, localStore, calls, uids, last>>

(***************************************************************************)
(* The manager's methods, called by the UI collaborator between the        *)
(* awaits of any running reconciliation.                                   *)
(***************************************************************************)
\* the ids the UI can pass: those of the records shown, and a stale one
PassableIds == { items[i].id : i \in 1..Len(items) } \cup { MissingId }

AddItem(formData) ==
  /\ Quiescent
  /\ calls < MaxCalls
  /\ calls' = calls + 1
  /\ Len(items) < MaxItems
  /\ items' = addItem(items, formData, now)
  /\ uids' = Append(uids, freshUid)
  /\ last' = [op |-> "addItem", error |-> "none", before |-> items, beforeUids |-> uids]
  /\ UNCHANGED <<procoreApi, tokens, page, now, sync, upstream, localStore>>

UpdateItem(itemId, updates) ==
  /\ Quiescent
  /\ calls < MaxCalls
  /\ calls' = calls + 1
  /\ LET r == updateItem(items, itemId, updates, now) IN
     /\ items' = r.items
     /\ last' = [op |-> "updateItem", itemId |-> itemId, error |-> r.error,
                 before |-> items, beforeUids |-> uids]
  /\ UNCHANGED <<procoreApi, tokens, page, now, sync, upstream, localStore, uids>>

DeleteItem(itemId) ==
  /\ Quiescent
  /\ calls < MaxCalls
  /\ calls' = calls + 1
  /\ LET r == deleteItem(items, itemId) IN
     /\ items' = r.items
     /\ uids' = IF r.error = "none" THEN removeAt(uids, findIndex(items, itemId)) ELSE uids
     /\ last' = [op |-> "deleteItem", itemId |-> itemId, error |-> r.error,
                 before |-> items, beforeUids |-> uids]
  /\ UNCHANGED <<procoreApi, tokens, page, now, sync, upstream, localStore>>

AdjustQuantity(itemId, quantityChange, isAllocation) ==
  /\ Quiescent
  /\ calls < MaxCalls
  /\ calls' = calls + 1
  /\ LET r == adjustQuantity(items, itemId, quantityChange, isAllocation, now) IN
     /\ items' = r.items
     /\ last' = [op |-> "adjustQuantity", itemId |-> itemId, quantityChange |-> quantityChange,
                 isAllocation |-> isAllocation, error |-> r.error,
                 before |-> items, beforeUids |-> uids]
  /\ UNCHANGED <<procoreApi, tokens, page, now, sync, upstream, localStore, uids>>

\* the projects the UI collaborator can open: the one reconciliation runs
\* for, and another
OtherProjectId == "8"

Projects == { ProjectId, OtherProjectId }

\* response.map(item => new LVInventoryItem(item)) at clock reading t
revive(collection, t) ==
  [i \in 1..Len(collection) |-> LVInventoryItem(collection[i], t)]

\* loadInventory (lines 239-255) from its call to its return: it reads and
\* writes nothing of the manager before its request ends. fetched is the
\* vendor's answer, stored the local entry, each a list of at most one
\* collection (none: the request failed, the key is absent)
loadInventory(its, fetched, stored, t) ==
  IF fetched # <<>>
  THEN revive(fetched[1], t)
  ELSE IF stored # <<>> THEN revive(stored[1], t) ELSE its

\* the vendor answers with the collection it holds for the project, or fails
LoadInventory(projectId) ==
  /\ Quiescent
  /\ calls < MaxCalls
  /\ calls' = calls + 1
  /\ \E fetched \in { <<>> } \cup
                     (IF projectId \in DOMAIN upstream THEN { <<upstream[projectId]>> } ELSE {}) :
       LET stored == IF projectId \in DOMAIN localStore
                     THEN <<localStore[projectId]>> ELSE <<>>
           loaded == loadInventory(items, fetched, stored, now)
       IN /\ items' = loaded
          /\ uids' = IF fetched = <<>> /\ stored = <<>>
                     THEN uids
                     ELSE [i \in 1..Len(loaded) |-> nthUnusedUid(i)]
          /\ last' = [op |-> "loadInventory", projectId |-> projectId, error |-> "none",
                      fetched |-> fetched, stored |-> stored,
                      before |-> items, beforeUids |-> uids]
  /\ UNCHANGED <<procoreApi, tokens, page, now, sync, upstream, localStore>>

(***************************************************************************)
(* syncWithPurchaseOrders (lines 1230-1281), one action per stretch of     *)
(* code between awaits, and one per loop iteration so that the clock can   *)
(* be read at different instants within a stretch.                         *)
(***************************************************************************)
\* the body of the loop at lines 1246-1267 for one line item: the store
\* afterwards, the id added to updatedItems (a set of at most one id), and
\* the index in the store afterwards of the record changed (0 when none)
processLineItem(its, po, lineItem, projectId, t) ==
  LET quantityChange == quantityChangeOf(lineItem)
      outcome(m, newItem) ==
        IF m # 0
        THEN IF isReceivable(po) /\ quantityChange > 0
             THEN [ items |-> adjustQuantity(its, its[m].id, quantityChange, FALSE, t).items,
                    updated |-> { its[m].id },
                    changed |-> findIndex(its, its[m].id),
                    kind |-> "adjusted" ]
             ELSE [ items |-> its, updated |-> {}, changed |-> 0, kind |-> "none" ]
        ELSE IF isReceivable(po)
             THEN [ items |-> addItem(its, newItem, t),
                    updated |-> { idOf(newItem) },
                    changed |-> Len(its) + 1,
                    kind |-> "created" ]
             ELSE [ items |-> its, updated |-> {}, changed |-> 0, kind |-> "none" ]
  IN CHOOSE out \in { outcome(m, newItem) :
                        m \in { findMatchingInventoryItem(its, lineItem) },
                        newItem \in { createInventoryItemFromPOLine(lineItem, projectId) } } :
       TRUE

\* StartSync behind a per-project run lock: no call starts while another is
\* in flight
StartSyncExclusive(r) ==
  /\ Quiescent
  /\ sync[r].pc = "idle"
  /\ \A q \in DOMAIN sync : sync[q].pc \in { "idle", "done", "failed" }
  /\ sync' = [sync EXCEPT ![r].pc = "fetchPOs"]
  /\ UNCHANGED <<procoreApi, tokens, page, items, now, upstream, localStore, calls, uids, last>>

\* the call is made: it runs to its first await, the purchase-order request
StartSync(r) ==
  /\ Quiescent
  /\ sync[r].pc = "idle"
  /\ sync' = [sync EXCEPT ![r].pc = "fetchPOs"]
  /\ UNCHANGED <<procoreApi, tokens, page, items, now, upstream, localStore, calls, uids, last>>

\* line 1233 returns the list pos; line 1236
PurchaseOrdersAnswer(r, pos) ==
  /\ Quiescent
  /\ sync[r].pc = "fetchPOs"
  /\ sync' = [sync EXCEPT ![r].pc = "nextPO", ![r].purchaseOrders = pos,
                          ![r].poIdx = 1, ![r].updatedItems = {}]
  /\ UNCHANGED <<procoreApi, tokens, page, items, now, upstream, localStore, calls, uids, last>>

PurchaseOrdersReturn(r) == \E pos \in PurchaseOrderLists : PurchaseOrdersAnswer(r, pos)

\* RequestFails with the throw of line 1279 left out: the catch logs the
\* error and the call returns as if nothing had happened
RequestFailsSwallowed(r) ==
  /\ Quiescent
  /\ sync[r].pc \in { "fetchPOs", "fetchLines" }
  /\ sync' = [sync EXCEPT ![r].pc = "done"]
  /\ UNCHANGED <<procoreApi, tokens, page, items, now, upstream, localStore, calls, uids, last>>

\* a request of line 1233 or 1244 fails: lines 1277-1280 rethrow
RequestFails(r) ==
  /\ Quiescent
  /\ sync[r].pc \in { "fetchPOs", "fetchLines" }
  /\ sync' = [sync EXCEPT ![r].pc = "failed"]
  /\ UNCHANGED <<procoreApi, tokens, page, items, now, upstream, localStore, calls, uids, last>>

\* line 1241: continue
SkipOrder(r) ==
  /\ sync[r].pc = "nextPO"
  /\ sync[r].poIdx <= Len(sync[r].purchaseOrders)
  /\ ~isLowVoltagePO(sync[r].purchaseOrders[sync[r].poIdx])
  /\ sync' = [sync EXCEPT ![r].poIdx = @ + 1]
  /\ UNCHANGED <<procoreApi, tokens, page, items, now, upstream, localStore, calls, uids, last>>

\* line 1244: the request is sent
RequestLineItems(r) ==
  /\ sync[r].pc = "nextPO"
  /\ sync[r].poIdx <= Len(sync[r].purchaseOrders)
  /\ isLowVoltagePO(sync[r].purchaseOrders[sync[r].poIdx])
  /\ sync' = [sync EXCEPT ![r].pc = "fetchLines"]
  /\ UNCHANGED <<procoreApi, tokens, page, items, now, upstream, localStore, calls, uids, last>>

\* line 1244 returns
LineItemsReturn(r) ==
  /\ Quiescent
  /\ sync[r].pc = "fetchLines"
  /\ sync' = [sync EXCEPT ![r].pc = "lines",
                          ![r].lineItems = sync[r].purchaseOrders[sync[r].poIdx].lineItems,
                          ![r].liIdx = 1]
  /\ UNCHANGED <<procoreApi, tokens, page, items, now, upstream, localStore, calls, uids, last>>

\* lines 1246-1267, one line item
ProcessLineItem(r) ==
  /\ sync[r].pc = "lines"
  /\ sync[r].liIdx <= Len(sync[r].lineItems)
  /\ LET po == sync[r].purchaseOrders[sync[r].poIdx]
         lineItem == sync[r].lineItems[sync[r].liIdx]
     IN \E out \in { processLineItem(items, po, lineItem, ProjectId, now) } :
          LET uidsAfter == IF out.kind = "created" THEN Append(uids, freshUid) ELSE uids
          IN /\ Len(out.items) <= MaxItems
             /\ items' = out.items
             /\ uids' = uidsAfter
             /\ sync' = [sync EXCEPT
                  ![r].liIdx = @ + 1,
                  ![r].updatedItems = @ \cup out.updated,
                  ![r].touched = IF out.changed = 0 THEN @
                                 ELSE @ \cup { uidsAfter[out.changed] }]
             /\ last' = [op |-> "syncLine", run |-> r, status |-> po.status,
                         lineItem |-> lineItem,
                         matched |-> findMatchingInventoryItem(items, lineItem),
                         kind |-> out.kind, before |-> items, beforeUids |-> uids]
  /\ UNCHANGED <<procoreApi, tokens, page, now, upstream, localStore, calls>>

\* EndOfLineItems as a return out of the loop over the orders: the call
\* ends after the first order whose line items it fetched
EndOfLineItemsReturns(r) ==
  /\ sync[r].pc = "lines"
  /\ sync[r].liIdx > Len(sync[r].lineItems)
  /\ sync' = [sync EXCEPT ![r].pc = "done", ![r].result = Cardinality(sync[r].updatedItems)]
  /\ UNCHANGED <<procoreApi, tokens, page, items, now, upstream, localStore, calls, uids, last>>

\* the loop of line 1246 ends
EndOfLineItems(r) ==
  /\ sync[r].pc = "lines"
  /\ sync[r].liIdx > Len(sync[r].lineItems)
  /\ sync' = [sync EXCEPT ![r].pc = "nextPO", ![r].poIdx = @ + 1]
  /\ UNCHANGED <<procoreApi, tokens, page, items, now, upstream, localStore, calls, uids, last>>

\* CallSaveInventory with the test of line 1271 left out
CallSaveInventoryAlways(r) ==
  /\ sync[r].pc = "nextPO"
  /\ sync[r].poIdx > Len(sync[r].purchaseOrders)
  /\ sync' = [sync EXCEPT ![r].pc = "saving", ![r].saveBody = serialize(items),
                          ![r].saves = @ + 1]
  /\ UNCHANGED <<procoreApi, tokens, page, items, now, upstream, localStore, calls, uids, last>>

\* lines 1271-1272: saveInventory is called; its request (lines 261-265)
\* carries the store as it is now
CallSaveInventory(r) ==
  /\ sync[r].pc = "nextPO"
  /\ sync[r].poIdx > Len(sync[r].purchaseOrders)
  /\ Cardinality(sync[r].updatedItems) > 0
  /\ sync' = [sync EXCEPT ![r].pc = "saving", ![r].saveBody = serialize(items),
                          ![r].saves = @ + 1]
  /\ UNCHANGED <<procoreApi, tokens, page, items, now, upstream, localStore, calls, uids, last>>

\* line 1276
ReturnZero(r) ==
  /\ sync[r].pc = "nextPO"
  /\ sync[r].poIdx > Len(sync[r].purchaseOrders)
  /\ Cardinality(sync[r].updatedItems) = 0
  /\ sync' = [sync EXCEPT ![r].pc = "done", ![r].result = 0]
  /\ UNCHANGED <<procoreApi, tokens, page, items, now, upstream, localStore, calls, uids, last>>

\* SaveInventoryReturns without the catch of lines 266-268: a failed request
\* rejects the call before the local write
SaveInventoryReturnsStrict(r) ==
  /\ Quiescent
  /\ sync[r].pc = "saving"
  /\ \E ok \in BOOLEAN :
       /\ upstream' = IF ok THEN put(upstream, ProjectId, sync[r].saveBody) ELSE upstream
       /\ localStore' = IF ok THEN put(localStore, ProjectId, serialize(items)) ELSE localStore
       /\ sync' = IF ok
                  THEN [sync EXCEPT ![r].pc = "done",
                                    ![r].result = Cardinality(sync[r].updatedItems)]
                  ELSE [sync EXCEPT ![r].pc = "failed"]
  /\ UNCHANGED <<procoreApi, tokens, page, items, now, calls, uids, last>>

\* saveInventory's request ends, well or not (lines 266-268), the local
\* write follows (line 271), and line 1273 returns the size of the set
SaveInventoryReturns(r) ==
  /\ Quiescent
  /\ sync[r].pc = "saving"
  /\ \E ok \in BOOLEAN :
       upstream' = IF ok THEN put(upstream, ProjectId, sync[r].saveBody) ELSE upstream
  /\ localStore' = put(localStore, ProjectId, serialize(items))
  /\ sync' = [sync EXCEPT ![r].pc = "done", ![r].result = Cardinality(sync[r].updatedItems)]
  /\ UNCHANGED <<procoreApi, tokens, page, items, now, calls, uids, last>>

Next ==
  \/ Tick
  \/ \E f \in Forms : AddItem(f)
  \/ \E id \in PassableIds, f \in Updates : UpdateItem(id, f)
  \/ \E id \in PassableIds : DeleteItem(id)
  \/ \E id \in PassableIds, a \in Adjustments :
       AdjustQuantity(id, a.quantityChange, a.isAllocation)
  \/ \E p \in Projects : LoadInventory(p)
  \/ \E r \in DOMAIN sync :
       \/ StartSync(r)
       \/ PurchaseOrdersReturn(r)
       \/ RequestFails(r)
       \/ SkipOrder(r)
       \/ RequestLineItems(r)
       \/ LineItemsReturn(r)
       \/ ProcessLineItem(r)
       \/ EndOfLineItems(r)
       \/ CallSaveInventory(r)
       \/ ReturnZero(r)
       \/ SaveInventoryReturns(r)

Spec == Init /\ [][Next]_vars

(***************************************************************************)
(* searchItems and generateInventoryReport (lines 349-391), and the        *)
(* stores and filters they are followed on.                                *)
(***************************************************************************)
\* the fields of a record that hold numbers
NumberFields ==
  { "quantityAvailable", "quantityAllocated", "reorderThreshold", "reorderQuantity", "cost" }

\* Number.prototype.toString, base 10, of an integer
numberToString(n) == IF n < 0 THEN "-" \o toString(0 - n) ELSE toString(n)

\* item[key].toString() for the text and number fields, "" when item[key]
\* is falsy (absent, null, '' or 0): line 353 rejects the record then
fieldText(item, key) ==
  IF key \notin DOMAIN item THEN ""
  ELSE IF key \in NumberFields
       THEN IF item[key] = 0 THEN "" ELSE numberToString(item[key])
       ELSE IF item[key] = Null THEN "" ELSE item[key]

\* lines 350-359; criteria is a record of texts, <<>> for {}
searchItems(its, criteria) ==
  LET passes(item) ==
        \A key \in DOMAIN criteria :
          /\ fieldText(item, key) # ""
          /\ includes(toLowerCase(fieldText(item, key)), toLowerCase(criteria[key]))
  IN SelectSeq(its, passes)

\* reduce((sum, item) => sum + item.cost * item.totalQuantity, 0)
RECURSIVE sumOfValues(_)
sumOfValues(its) ==
  IF its = <<>> THEN 0
  ELSE sumOfValues(SubSeq(its, 1, Len(its) - 1))
         + its[Len(its)].cost * totalQuantity(its[Len(its)])

\* the report of lines 362-391 with item.totalQuantity read as
\* item.quantityAvailable
generateInventoryReportOnHand(its, filters) ==
  LET reportItems == IF DOMAIN filters # {} THEN searchItems(its, filters) ELSE its
      onHand(item) == [item EXCEPT !.quantityAllocated = 0]
      valued == [i \in 1..Len(reportItems) |-> onHand(reportItems[i])]
      inCategory(c) == LET is(item) == item.category = c IN SelectSeq(valued, is)
  IN [ totalItems |-> Len(reportItems),
       totalValue |-> sumOfValues(valued),
       lowStockItems |-> Len(SelectSeq(reportItems, needsReorder)),
       byCategory |->
         [c \in { reportItems[i].category : i \in 1..Len(reportItems) } |->
            [count |-> Len(inCategory(c)), value |-> sumOfValues(inCategory(c))]],
       items |-> serialize(reportItems) ]

\* lines 362-391
generateInventoryReport(its, filters) ==
  LET reportItems == IF DOMAIN filters # {} THEN searchItems(its, filters) ELSE its
      inCategory(c) == LET is(item) == item.category = c IN SelectSeq(reportItems, is)
  IN [ totalItems |-> Len(reportItems),
       totalValue |-> sumOfValues(reportItems),
       lowStockItems |-> Len(SelectSeq(reportItems, needsReorder)),
       byCategory |->
         [c \in { reportItems[i].category : i \in 1..Len(reportItems) } |->
            [count |-> Len(inCategory(c)), value |-> sumOfValues(inCategory(c))]],
       items |-> serialize(reportItems) ]

\* generateInventoryReport keeping the filtered list as the store
\* (this.items = this.searchItems(filters))
GenerateInventoryReportInPlace(filters) ==
  /\ Quiescent
  /\ calls < MaxCalls
  /\ calls' = calls + 1
  /\ items' = IF DOMAIN filters # {} THEN searchItems(items, filters) ELSE items
  /\ uids' = SubSeq(uids, 1, Len(items'))
  /\ last' = [op |-> "generateInventoryReport", filters |-> filters, error |-> "none",
              report |-> generateInventoryReport(items, filters),
              before |-> items, beforeUids |-> uids]
  /\ UNCHANGED <<procoreApi, tokens, page, now, sync, upstream, localStore>>

\* the UI collaborator asks for a report (line 1065, or with filters)
GenerateInventoryReport(filters) ==
  /\ Quiescent
  /\ calls < MaxCalls
  /\ calls' = calls + 1
  /\ last' = [op |-> "generateInventoryReport", filters |-> filters, error |-> "none",
              report |-> generateInventoryReport(items, filters),
              before |-> items, beforeUids |-> uids]
  /\ UNCHANGED <<procoreApi, tokens, page, items, now, sync, upstream, localStore, uids>>

\* the item form's submission with every field chosen
SampleForm(category, description, cost, quantityAvailable, quantityAllocated, reorderThreshold, location) ==
  [ category |-> category,
    subCategory |-> EmptyString,
    manufacturer |-> EmptyString,
    partNumber |-> EmptyString,
    description |-> description,
    unitOfMeasure |-> Each,
    cost |-> cost,
    quantityAvailable |-> quantityAvailable,
    quantityAllocated |-> quantityAllocated,
    reorderThreshold |-> reorderThreshold,
    reorderQuantity |-> 2,
    location |-> location,
    projectId |-> ProjectId ]

SampleForms ==
  { SampleForm("Cable", Cat6Cable, 10, 1, 0, 1, Warehouse),
    SampleForm("Fiber Optics", FiberPatch, 20, 1, 1, 0, Warehouse),
    SampleForm("Cable", "Speaker wire", 30, 1, 0, 0, "Job Site"),
    SampleForm(EmptyString, "Patch panel", 0, 0, 0, 0, EmptyString) }

\* a store holds at most this many records when a report is asked for
MaxRecords == 3

\* the store after the forms of the list were added, one per clock reading
RECURSIVE storeOf(_)
storeOf(forms) ==
  IF forms = <<>> THEN <<>>
  ELSE addItem(storeOf(SubSeq(forms, 1, Len(forms) - 1)), forms[Len(forms)], Len(forms))

SampleStores == { storeOf(forms) : forms \in ListsUpTo(SampleForms, MaxRecords) }

\* the report's filters: none, one field, two fields, a number field
Filters ==
  { <<>>,
    [category |-> "CABLE"],
    [category |-> "cable", location |-> "wh"],
    [description |-> "fiber"],
    [cost |-> "0"] }

InitQueries ==
  /\ items \in SampleStores
  /\ now = Len(items) + 1
  /\ sync = [r \in Runs |-> IdleRun]
  /\ upstream = <<>>
  /\ localStore = <<>>
  /\ calls = 0
  /\ uids = [i \in 1..Len(items) |-> i]
  /\ last = [op |-> "none"]
  /\ NoSession

NextQueries ==
  \/ Tick
  \/ \E filters \in Filters : GenerateInventoryReport(filters)

SpecQueries == InitQueries /\ [][NextQueries]_vars

(***************************************************************************)
(* Two calls of syncWithPurchaseOrders for the same project, the second    *)
(* made while the first is suspended at one of its awaits.                 *)
(***************************************************************************)
RaceRuns == { "run1", "run2" }

\* what the vendor lists to either call
RaceOrderLists == { <<PONetwork>>, <<POPaint>> }

InitRace ==
  /\ items = <<>>
  /\ now = 1
  /\ sync = [r \in RaceRuns |-> IdleRun]
  /\ upstream = <<>>
  /\ localStore = <<>>
  /\ calls = 0
  /\ uids = <<>>
  /\ last = [op |-> "none"]
  /\ NoSession

NextRace ==
  \/ Tick
  \/ \E f \in Forms : AddItem(f)
  \/ \E r \in DOMAIN sync :
       \/ StartSync(r)
       \/ \E pos \in RaceOrderLists : PurchaseOrdersAnswer(r, pos)
       \/ RequestFails(r)
       \/ SkipOrder(r)
       \/ RequestLineItems(r)
       \/ LineItemsReturn(r)
       \/ ProcessLineItem(r)
       \/ EndOfLineItems(r)
       \/ CallSaveInventory(r)
       \/ ReturnZero(r)
       \/ SaveInventoryReturns(r)

SpecRace == InitRace /\ [][NextRace]_vars

(***************************************************************************)
(* A reconciliation run over orders whose line items are described with    *)
(* the keywords of several category rules, of one, and of none.            *)
(***************************************************************************)
LineFiberCable == [ description |-> "Fiber cable", quantity |-> 5 ]
LineDoorSensor == [ description |-> "Door Sensor", quantity |-> 2 ]
LinePhoneAlarm == [ description |-> "Phone alarm", quantity |-> 1 ]
LineToolMount == [ description |-> "TOOL mount", quantity |-> 4 ]
LineTrayBracket == [ description |-> "Tray bracket", quantity |-> 6 ]
LineFaceplate == [ description |-> "Faceplate", quantity |-> 8 ]

POData ==
  [ id |-> 5, title |-> "Data closet", status |-> "Approved",
    lineItems |-> <<LineFiberCable, LineDoorSensor>> ]
POTelecom ==
  [ id |-> 6, title |-> "Telecom room", status |-> "Closed",
    lineItems |-> <<LinePhoneAlarm, LineToolMount>> ]
POCommunications ==
  [ id |-> 7, title |-> "Communications", status |-> "Approved",
    lineItems |-> <<LineTrayBracket, LineFaceplate>> ]

CatalogOrders == { POData, POTelecom, POCommunications, POPaint }

CatalogOrderLists == ListsUpTo(CatalogOrders, MaxOrders)

NextCatalog ==
  \/ Tick
  \/ \E r \in DOMAIN sync :
       \/ StartSync(r)
       \/ \E pos \in CatalogOrderLists : PurchaseOrdersAnswer(r, pos)
       \/ RequestFails(r)
       \/ SkipOrder(r)
       \/ RequestLineItems(r)
       \/ LineItemsReturn(r)
       \/ ProcessLineItem(r)
       \/ EndOfLineItems(r)
       \/ CallSaveInventory(r)
       \/ ReturnZero(r)
       \/ SaveInventoryReturns(r)

SpecCatalog == Init /\ [][NextCatalog]_vars

(***************************************************************************)
(* Properties.                                                             *)
(***************************************************************************)
\* the position in the store before the last call of the record its id resolved to
LastTarget == findIndex(last.before, last.itemId)

LastIsAdjust == last.op = "adjustQuantity"

LastIsSyncLine == last.op = "syncLine"

Ended(r) == sync[r].pc \in { "done", "failed" }

\* C1: after any sequence of adjustQuantity calls on records that started
\* with non-negative quantities, every record of the store has
\* quantityAvailable >= 0 and quantityAllocated >= 0.
C1_QuantitiesNonNegative ==
  \A i \in 1..Len(items) :
    items[i].quantityAvailable >= 0 /\ items[i].quantityAllocated >= 0

\* C2: an allocation of delta > 0 with delta greater than the record's
\* quantityAvailable fails with the insufficient-stock error and leaves the
\* record, its lastUpdated included, and the rest of the store unchanged.
C2_InsufficientStockLeavesStore ==
  ( /\ LastIsAdjust
    /\ last.isAllocation
    /\ last.quantityChange > 0
    /\ LastTarget # 0
    /\ last.quantityChange > last.before[LastTarget].quantityAvailable )
  => (last.error = "InsufficientStock" /\ items = last.before)

C2_Witness ==
  /\ LastIsAdjust
  /\ last.isAllocation
  /\ LastTarget # 0
  /\ last.quantityChange > last.before[LastTarget].quantityAvailable
  /\ last.before[LastTarget].quantityAvailable > 0
  /\ last.error = "InsufficientStock"

\* C3: a successful allocation-mode call takes exactly delta from
\* quantityAvailable and adds exactly delta to quantityAllocated, so the
\* record's totalQuantity is the same before and after.
C3_AllocationMovesDelta ==
  (LastIsAdjust /\ last.isAllocation /\ last.error = "none")
  => /\ LastTarget # 0
     /\ items[LastTarget].quantityAvailable =
          last.before[LastTarget].quantityAvailable - last.quantityChange
     /\ items[LastTarget].quantityAllocated =
          last.before[LastTarget].quantityAllocated + last.quantityChange
     /\ totalQuantity(items[LastTarget]) = totalQuantity(last.before[LastTarget])

C3_Witness ==
  /\ LastIsAdjust
  /\ last.isAllocation
  /\ last.error = "none"
  /\ last.quantityChange > 0
  /\ items[LastTarget].quantityAllocated = last.quantityChange

\* C4: a stock-mode call on an existing record signals no error, sets
\* quantityAvailable to max(0, quantityAvailable + delta) and leaves
\* quantityAllocated as it was; removing 5 from 3 leaves 0.
C4_StockFloorsAtZero ==
  (LastIsAdjust /\ ~last.isAllocation /\ LastTarget # 0)
  => LET sum == last.before[LastTarget].quantityAvailable + last.quantityChange IN
     /\ last.error = "none"
     /\ sum >= 0 => items[LastTarget].quantityAvailable = sum
     /\ sum < 0 => items[LastTarget].quantityAvailable = 0
     /\ items[LastTarget].quantityAllocated = last.before[LastTarget].quantityAllocated

C4_Witness ==
  /\ LastIsAdjust
  /\ ~last.isAllocation
  /\ LastTarget # 0
  /\ last.quantityChange = -5
  /\ last.before[LastTarget].quantityAvailable = 3
  /\ items[LastTarget].quantityAvailable = 0
  /\ last.error = "none"

\* C5: updateItem, deleteItem and adjustQuantity with an id that resolves to
\* no record fail with the not-found error and leave the store (its
\* records, their order, their fields) unchanged.
C5_NotFoundLeavesStore ==
  ( /\ last.op \in { "updateItem", "deleteItem", "adjustQuantity" }
    /\ \A i \in 1..Len(last.before) : last.before[i].id # last.itemId )
  => (last.error = "NotFound" /\ items = last.before)

C5_Witness ==
  /\ last.op = "deleteItem"
  /\ last.error = "NotFound"
  /\ Len(last.before) > 0
  /\ last.itemId = MissingId

\* C6: a line item of an order that is neither Approved nor Closed changes
\* nothing in the store, matched or not, and a run whose orders are all
\* such returns 0 having touched nothing.
C6_PendingOrdersChangeNothing ==
  /\ (LastIsSyncLine /\ last.status \notin { "Approved", "Closed" })
       => (items = last.before /\ last.kind = "none")
  /\ \A r \in DOMAIN sync :
       ( /\ sync[r].pc = "done"
         /\ \A k \in 1..Len(sync[r].purchaseOrders) :
              sync[r].purchaseOrders[k].status \notin { "Approved", "Closed" } )
       => (sync[r].result = 0 /\ sync[r].touched = {} /\ sync[r].saves = 0)

C6_Witness ==
  /\ LastIsSyncLine
  /\ last.status = "Draft"
  /\ last.matched # 0
  /\ quantityChangeOf(last.lineItem) > 0
  /\ \E r \in DOMAIN sync : sync[r].pc = "done" /\ sync[r].purchaseOrders = <<PODraft>>

\* C7: for a line item of an Approved or Closed order that matches a record,
\* a positive quantity - receivedQuantity is added to the matched record's
\* quantityAvailable, its quantityAllocated staying; otherwise the store,
\* timestamps included, is untouched and nothing is counted.
C7_MatchedRecordReceives ==
  (LastIsSyncLine /\ last.status \in { "Approved", "Closed" } /\ last.matched # 0)
  => LET m == last.matched
         quantityChange == quantityChangeOf(last.lineItem)
     IN IF quantityChange > 0
        THEN /\ items[m].quantityAvailable =
                  last.before[m].quantityAvailable + quantityChange
             /\ items[m].quantityAllocated = last.before[m].quantityAllocated
        ELSE items = last.before /\ last.kind = "none"

\* C8: for a line item of an Approved or Closed in-scope order that matches
\* no record, exactly one record is appended, with quantityAvailable the
\* line quantity, quantityAllocated 0, reorderThreshold floor(quantity / 5),
\* reorderQuantity the quantity and location the purchase-order sentinel;
\* "Cat6 cable", 10 ordered, 2 received, on an empty store gives one Cable
\* record with 10 available and threshold 2.
C8_UnmatchedLineCreatesRecord ==
  (LastIsSyncLine /\ last.status \in { "Approved", "Closed" } /\ last.matched = 0)
  => LET n == Len(last.before)
         q == last.lineItem.quantity
     IN /\ Len(items) = n + 1
        /\ SubSeq(items, 1, n) = last.before
        /\ items[n + 1].quantityAvailable = q
        /\ items[n + 1].quantityAllocated = 0
        /\ 5 * items[n + 1].reorderThreshold <= q
        /\ q < 5 * items[n + 1].reorderThreshold + 5
        /\ items[n + 1].reorderQuantity = q
        /\ items[n + 1].location = "From PO"
        /\ (last.lineItem = LineCat6 /\ n = 0) =>
             /\ items[1].quantityAvailable = 10
             /\ items[1].category = "Cable"
             /\ items[1].reorderThreshold = 2

C8_Witness ==
  /\ LastIsSyncLine
  /\ last.status = "Closed"
  /\ last.lineItem = LineCat6
  /\ last.before = <<>>
  /\ Len(items) = 1

\* C9: the value a run returns is the number of distinct records the run
\* created or quantity-adjusted.
C9_ResultCountsTouchedRecords ==
  \A r \in DOMAIN sync :
    sync[r].pc = "done" => sync[r].result = Cardinality(sync[r].touched)

\* C10, as claimed: every run, however it ends, has persisted the store
\* exactly once if it touched a record and not at all if it touched none.
C10_EveryRunPersistsOnce ==
  \A r \in DOMAIN sync :
    Ended(r) => sync[r].saves = (IF sync[r].touched # {} THEN 1 ELSE 0)

\* C10, amended: a run that ends without a fetch failure has persisted the
\* store exactly once, after the last line item of the last order, if it
\* touched a record, and not at all if it touched none; no run persists
\* before its orders are all processed, and a run that a fetch failure ends
\* does not persist, whatever it touched.
C10_CompletedRunPersistsOnce ==
  \A r \in DOMAIN sync :
    /\ sync[r].pc = "done" =>
         /\ sync[r].saves = (IF sync[r].touched # {} THEN 1 ELSE 0)
         /\ sync[r].saves = 1 => ProjectId \in DOMAIN localStore
    /\ sync[r].pc = "saving" =>
         /\ sync[r].saves = 1
         /\ sync[r].touched # {}
         /\ sync[r].poIdx > Len(sync[r].purchaseOrders)
    /\ sync[r].pc \notin { "done", "saving" } => sync[r].saves = 0

C10_Witness ==
  \E r \in DOMAIN sync :
    /\ sync[r].pc = "done"
    /\ sync[r].saves = 1
    /\ Len(sync[r].purchaseOrders) = 2
    /\ isLowVoltagePO(sync[r].purchaseOrders[2])
    /\ ProjectId \in DOMAIN localStore

\* C11: a failed fetch of the purchase orders or of an order's line items
\* ends the run there with the failure (nothing of the run happens after
\* it, the store is as it was when the fetch failed, what the run had
\* applied included), and a run ends in failure only from a fetch.
C11_FetchFailureAborts ==
  [][\A r \in DOMAIN sync :
       /\ sync[r].pc = "failed" => sync'[r] = sync[r]
       /\ sync[r].pc = "fetchPOs" => sync'[r].pc \in { "fetchPOs", "nextPO", "failed" }
       /\ sync[r].pc = "fetchLines" => sync'[r].pc \in { "fetchLines", "lines", "failed" }
       /\ (sync[r].pc # "failed" /\ sync'[r].pc = "failed") =>
            /\ sync[r].pc \in { "fetchPOs", "fetchLines" }
            /\ items' = items
            /\ sync'[r].touched = sync[r].touched
            /\ sync'[r].poIdx = sync[r].poIdx
            /\ sync'[r].saves = 0]_vars

C11_Witness ==
  \E r \in DOMAIN sync :
    /\ sync[r].pc = "failed"
    /\ sync[r].poIdx = 2
    /\ sync[r].touched # {}
    /\ \E i \in 1..Len(items) : uids[i] \in sync[r].touched

\* C12: the record reconciliation matches to a line item is the first of the
\* store, in insertion order, that has the line item's non-empty part number
\* or whose description contains the line item's description, letter case
\* apart; it matches none exactly when no record is so.
C12_FirstMatchWins ==
  LastIsSyncLine =>
    LET byPartNumber(i) ==
          /\ "part_number" \in DOMAIN last.lineItem
          /\ last.lineItem.part_number # ""
          /\ last.before[i].partNumber # ""
          /\ last.before[i].partNumber = last.lineItem.part_number
        byDescription(i) ==
          includes(toLowerCase(last.before[i].description),
                   toLowerCase(last.lineItem.description))
        satisfies(i) == byPartNumber(i) \/ byDescription(i)
    IN IF \E i \in 1..Len(last.before) : satisfies(i)
       THEN /\ last.matched \in 1..Len(last.before)
            /\ satisfies(last.matched)
            /\ \A j \in 1..(last.matched - 1) : ~satisfies(j)
       ELSE last.matched = 0

C12_Witness ==
  /\ LastIsSyncLine
  /\ last.lineItem = LinePartAOpen
  /\ Len(last.before) = 2
  /\ last.before[1].partNumber = PartA
  /\ ~includes(last.before[1].description, "cable")
  /\ last.before[2].partNumber # PartA
  /\ last.before[2].description = Cat6Cable
  /\ last.matched = 1

\* C13: nothing keeps a second run from starting while a first is suspended
\* at a fetch, and a run's line item adds its quantity change to the record
\* it resolves to whatever another run has applied before: two overlapping
\* runs can both add the same line item's change, the record ending with
\* twice the change.
C13_NoMutualExclusion ==
  /\ \A r \in DOMAIN sync :
       (sync[r].pc = "idle" /\ Quiescent) => ENABLED StartSync(r)
  /\ (LastIsSyncLine /\ last.kind = "adjusted") =>
       LET target == findIndex(last.before, last.before[last.matched].id) IN
       items[target].quantityAvailable =
         last.before[target].quantityAvailable + quantityChangeOf(last.lineItem)

C13_Witness ==
  /\ sync["run1"].pc = "saving"
  /\ sync["run2"].pc = "saving"
  /\ sync["run1"].purchaseOrders = <<PONetwork>>
  /\ sync["run2"].purchaseOrders = <<PONetwork>>
  /\ \E i \in 1..Len(items) :
       /\ uids[i] \in sync["run1"].touched \cap sync["run2"].touched
       /\ items[i].partNumber = PartA
       /\ items[i].quantityAvailable = 0 + 2 * quantityChangeOf(LinePartAOpen)

\* C14: when saveInventory's request ends, with or without the upstream
\* write done, the call returns normally and the local store holds, under
\* the project's key, the Record Store as it is then; the upstream
\* collection is either the one the request carried or what it was.
C14_SaveAlwaysWritesLocally ==
  [][\A r \in DOMAIN sync :
       (sync[r].pc = "saving" /\ sync'[r].pc # "saving") =>
         /\ sync'[r].pc = "done"
         /\ ProjectId \in DOMAIN localStore'
         /\ localStore'[ProjectId] = serialize(items')
         /\ items' = items
         /\ \/ upstream' = upstream
            \/ upstream' = put(upstream, ProjectId, sync[r].saveBody)]_vars

C14_Witness ==
  \E r \in DOMAIN sync :
    /\ sync[r].pc = "done"
    /\ sync[r].saves = 1
    /\ Len(items) > 0
    /\ ProjectId \notin DOMAIN upstream
    /\ ProjectId \in DOMAIN localStore
    /\ localStore[ProjectId] = serialize(items)

\* C15: when loadInventory(p) has returned, the Record Store is the vendor's
\* collection for p if the request succeeded, else the collection the local
\* store holds under p's key, and empty if that key is absent: never the
\* records that were there before the call.
C15_LoadReplacesStore ==
  last.op = "loadInventory" =>
    items = IF last.fetched # <<>> THEN last.fetched[1]
            ELSE IF last.stored # <<>> THEN last.stored[1]
            ELSE <<>>

\* C16: in every state each record's needsReorder is true exactly when its
\* quantityAvailable is at most its reorderThreshold, equality included, and
\* getItemsNeedingReorder gives exactly those records in the store's order,
\* whatever adjustQuantity or updateItem did last.
C16_ReorderFlagIsDerived ==
  LET low == { i \in 1..Len(items) :
                 items[i].quantityAvailable <= items[i].reorderThreshold }
      listed == getItemsNeedingReorder(items)
  IN /\ \A i \in 1..Len(items) : needsReorder(items[i]) <=> (i \in low)
     /\ Len(listed) = Cardinality(low)
     /\ \A i \in low :
          listed[Cardinality({ j \in low : j <= i })] = items[i]

C16_Witness ==
  /\ last.op = "updateItem"
  /\ last.error = "none"
  /\ LastTarget # 0
  /\ ~needsReorder(last.before[LastTarget])
  /\ items[LastTarget].quantityAvailable = items[LastTarget].reorderThreshold
  /\ needsReorder(items[LastTarget])
  /\ Len(items) = 2
  /\ Len(getItemsNeedingReorder(items)) = 1

C20_FirstCategoryRuleWins ==
  (LastIsSyncLine /\ last.kind = "created") =>
    LET d == toLowerCase(last.lineItem.description)
        in(w) == includes(d, w)
        expected ==
          IF in("cable") \/ in("wire") THEN "Cable"
          ELSE IF in("connector") \/ in("terminal") THEN "Connectors"
          ELSE IF in("camera") \/ in("sensor") THEN "Devices"
          ELSE IF in("switch") \/ in("router") \/ in("access point")
            THEN "Network Equipment"
          ELSE IF in("card reader") \/ in("door") THEN "Access Control"
          ELSE IF in("speaker") \/ in("microphone") \/ in("projector")
            THEN "Audio/Visual"
          ELSE IF in("alarm") \/ in("motion") \/ in("security") THEN "Security"
          ELSE IF in("phone") \/ in("telecom") THEN "Telecommunications"
          ELSE IF in("fiber") THEN "Fiber Optics"
          ELSE IF in("tool") THEN "Tools"
          ELSE IF in("bracket") \/ in("mount") THEN "Mounting Hardware"
          ELSE IF in("conduit") \/ in("raceway") \/ in("tray")
            THEN "Conduit & Raceways"
          ELSE "Other"
    IN /\ items[Len(items)].category = expected
       /\ (in("fiber") /\ in("cable")) => items[Len(items)].category = "Cable"

C20_Witness ==
  /\ LastIsSyncLine
  /\ last.kind = "created"
  /\ last.lineItem = LineFiberCable
  /\ items[Len(items)].description = "Fiber cable"
  /\ items[Len(items)].category = "Cable"

\* the sum of cost * (quantityAvailable + quantityAllocated) over records
RECURSIVE ValueOfRecords(_)
ValueOfRecords(records) ==
  IF records = <<>> THEN 0
  ELSE LET r == records[1]
       IN r.cost * (r.quantityAvailable + r.quantityAllocated)
            + ValueOfRecords(SubSeq(records, 2, Len(records)))

\* the sum of f over the set S of its arguments
RECURSIVE SumOver(_, _)
SumOver(f, S) ==
  IF S = {} THEN 0 ELSE LET x == CHOOSE y \in S : TRUE IN f[x] + SumOver(f, S \ {x})

\* C17: the report over the records that pass the filter (all of the store
\* when the filter is empty) has totalItems their number, totalValue the
\* sum of cost * (quantityAvailable + quantityAllocated), lowStockItems the
\* number of them with quantityAvailable <= reorderThreshold, and per
\* category the count and value of its records, the counts adding up to
\* totalItems and the values to totalValue; costs 10, 20, 30 with total
\* quantities 1, 2, 1 give 80.
C17_ReportTotals ==
  last.op = "generateInventoryReport" =>
    LET report == last.report
        records == report.items
        of(c) == LET is(r) == r.category = c IN SelectSeq(records, is)
    IN /\ DOMAIN last.filters = {} => records = serialize(last.before)
       /\ records = serialize(searchItems(last.before, last.filters))
       /\ report.totalItems = Len(records)
       /\ report.totalValue = ValueOfRecords(records)
       /\ report.lowStockItems =
            Cardinality({ i \in 1..Len(records) :
                           records[i].quantityAvailable <= records[i].reorderThreshold })
       /\ DOMAIN report.byCategory = { records[i].category : i \in 1..Len(records) }
       /\ \A c \in DOMAIN report.byCategory :
            /\ report.byCategory[c].count = Len(of(c))
            /\ report.byCategory[c].value = ValueOfRecords(of(c))
       /\ SumOver([c \in DOMAIN report.byCategory |-> report.byCategory[c].count],
                  DOMAIN report.byCategory) = report.totalItems
       /\ SumOver([c \in DOMAIN report.byCategory |-> report.byCategory[c].value],
                  DOMAIN report.byCategory) = report.totalValue

C17_Witness ==
  /\ last.op = "generateInventoryReport"
  /\ last.filters = <<>>
  /\ Len(last.before) = 3
  /\ { <<last.before[i].cost, totalQuantity(last.before[i])>> : i \in 1..3 }
       = { <<10, 1>>, <<20, 2>>, <<30, 1>> }
  /\ last.report.totalValue = 80
  /\ last.report.totalItems = 3
  /\ last.report.lowStockItems = 1

\* C18: a call of generateInventoryReport, filtered or not, leaves the
\* Record Store as it was (the same records in the same order, every field
\* of each, lastUpdated included) and writes nothing locally or upstream.
C18_ReportHasNoSideEffects ==
  [][(last'.op = "generateInventoryReport" /\ calls' # calls) =>
       /\ items' = items
       /\ localStore' = localStore
       /\ upstream' = upstream
       /\ sync' = sync]_vars

C18_Witness ==
  /\ last.op = "generateInventoryReport"
  /\ last.filters = [category |-> "CABLE"]
  /\ Len(last.before) = 3
  /\ last.report.totalItems = 2
  /\ items = last.before

\* C24: a call of adjustQuantity that succeeds, the UI collaborator's or
\* reconciliation's, changes nothing but quantityAvailable,
\* quantityAllocated and lastUpdated of the record its id resolves to: that
\* record's other fields, every other record, the number and the order of
\* the records stay, and neither the vendor's collection nor the local
\* entry is written.
C24_AdjustChangesOnlyQuantities ==
  [][\A k \in 1..Len(items) :
       ( \/ /\ calls' = calls + 1
            /\ last'.op = "adjustQuantity"
            /\ last'.error = "none"
            /\ k = findIndex(items, last'.itemId)
         \/ /\ last' # last
            /\ last'.op = "syncLine"
            /\ last'.kind = "adjusted"
            /\ k = findIndex(items, items[last'.matched].id) )
       => /\ Len(items') = Len(items)
          /\ \A i \in 1..Len(items) : i # k => items'[i] = items[i]
          /\ DOMAIN items'[k] = DOMAIN items[k]
          /\ \A f \in DOMAIN items[k] \ { "quantityAvailable", "quantityAllocated", "lastUpdated" } :
               items'[k][f] = items[k][f]
          /\ upstream' = upstream
          /\ localStore' = localStore]_vars

C24_Witness ==
  /\ LastIsAdjust
  /\ last.error = "none"
  /\ LastTarget = 2
  /\ Len(items) >= 2
  /\ items[2].quantityAvailable # last.before[2].quantityAvailable
  /\ items[1] = last.before[1]

\* C25: the records of the store have pairwise distinct ids, those created
\* within one reading of the clock included, so that an id resolves to the
\* one record it was given to.
C25_IdsAreDistinct ==
  \A i, j \in 1..Len(items) : i # j => items[i].id # items[j].id

(***************************************************************************)
(* A reconciliation run each of whose requests is answered in the end,     *)
(* well or not, over orders whose new records fit the store's bound.       *)
(***************************************************************************)
LiveOrders == { PONetwork, PODraft, POPaint }

LiveOrderLists == ListsUpTo(LiveOrders, MaxOrders)

\* a step of the call r after it was made: an answer to the request it
\* waits for, or the next stretch of its code
RunStep(r) ==
  \/ \E pos \in LiveOrderLists : PurchaseOrdersAnswer(r, pos)
  \/ RequestFails(r)
  \/ SkipOrder(r)
  \/ RequestLineItems(r)
  \/ LineItemsReturn(r)
  \/ ProcessLineItem(r)
  \/ EndOfLineItems(r)
  \/ CallSaveInventory(r)
  \/ ReturnZero(r)
  \/ SaveInventoryReturns(r)

NextLive ==
  \/ Tick
  \/ \E r \in DOMAIN sync : StartSync(r) \/ RunStep(r)

\* the event loop runs the code that is ready, and every request ends
SpecLive == Init /\ [][NextLive]_vars /\ \A r \in Runs : WF_vars(RunStep(r))

\* C21: a call of syncWithPurchaseOrders over finite lists ends, every
\* request being answered in the end: it returns its count after the last
\* listed order, having gone through every line item of each in-scope order
\* on its way, or it ends with the failure of a request it was waiting
\* for; it ends in no other way.
C21_RunTerminates ==
  /\ \A r \in Runs : (sync[r].pc # "idle") ~> Ended(r)
  /\ [][\A r \in Runs :
          /\ (sync[r].pc # "done" /\ sync'[r].pc = "done") =>
               /\ sync[r].pc \in { "nextPO", "saving" }
               /\ sync[r].poIdx = Len(sync[r].purchaseOrders) + 1
               /\ sync'[r].result = Cardinality(sync[r].updatedItems)
          /\ (sync[r].pc # "failed" /\ sync'[r].pc = "failed") =>
               sync[r].pc \in { "fetchPOs", "fetchLines" }
          /\ (sync[r].pc # "fetchPOs" /\ sync'[r].poIdx # sync[r].poIdx) =>
               /\ sync'[r].poIdx = sync[r].poIdx + 1
               /\ \/ ~isLowVoltagePO(sync[r].purchaseOrders[sync[r].poIdx])
                  \/ /\ sync[r].pc = "lines"
                     /\ sync[r].lineItems = sync[r].purchaseOrders[sync[r].poIdx].lineItems
                     /\ sync[r].liIdx = Len(sync[r].lineItems) + 1]_vars

C21_Witness ==
  \E r \in Runs :
    /\ sync[r].pc = "done"
    /\ Len(sync[r].purchaseOrders) >= 2
    /\ isLowVoltagePO(sync[r].purchaseOrders[2])
    /\ sync[r].result > 0

(***************************************************************************)
(* LVInventoryUI.initialize (lines 443-471) and renderProjectSelector      *)
(* (lines 490-539) over ProcoreAPI (lines 18-143): one action per stretch  *)
(* of code between awaits.                                                 *)
(***************************************************************************)
MaxLoads == 2

\* the requests of renderProjectSelector: lines 499, 500 and 510
SelectorRequests == 3

\* what localStorage holds of an earlier visit: nothing, a session that is
\* still good, one whose access token has expired
StoredSessions ==
  { <<>>,
    [accessToken |-> "tokenA", refreshToken |-> "refreshA", tokenExpiry |-> DefaultExpiresIn],
    [accessToken |-> "tokenA", refreshToken |-> "refreshA", tokenExpiry |-> 0] }

\* a token request of initialize itself went wrong
FailedInInitialize(pg) == pg.failed \in { "exchange", "refresh" }

\* what follows authenticate() once it has returned token to its caller:
\* initialize goes on to renderProjectSelector (line 466), which shows the
\* loading view and calls request (line 499); request sends (line 123); the
\* login button's handler (line 485) does nothing with it
afterAuthenticate(pg, token) ==
  CASE pg.caller = "initialize" ->
         [pg EXCEPT !.view = "selector", !.caller = "request", !.pc = "authenticate"]
    [] pg.caller = "request" ->
         [pg EXCEPT !.pc = "response",
                    !.sent = Append(@, [token |-> token,
                                        authorization |-> authorization(token),
                                        afterFailure |-> FailedInInitialize(pg)])]
    [] OTHER -> [pg EXCEPT !.pc = "stopped"]

\* the failure a token request notes: the first one, by who was waiting
noteFailure(pg) ==
  IF pg.failed # "none" THEN pg
  ELSE [pg EXCEPT !.failed = IF pg.pc = "exchange" THEN "exchange"
                             ELSE IF pg.caller = "initialize" THEN "refresh" ELSE "later"]

\* DOMContentLoaded: initApp (lines 1388-1415) builds the objects, and
\* initialize runs to its first await (lines 445-453 or 465)
PageLoad(authCode) ==
  /\ page.pc \in { "closed", "stopped" } \/ page.redirected
  /\ page.loads < MaxLoads
  /\ procoreApi' = loadTokens(tokens)
  /\ page' = [ClosedPage EXCEPT !.pc = IF authCode THEN "exchange" ELSE "authenticate",
                                !.caller = "initialize",
                                !.loads = page.loads + 1]
  /\ UNCHANGED <<items, now, sync, upstream, localStore, calls, uids, last, tokens>>

\* handleCallback's request is answered with a body (lines 61-63), and
\* initialize goes on (lines 455, 465)
HandleCallbackReturns(data) ==
  /\ page.pc = "exchange"
  /\ procoreApi' = setTokens(data, now).api
  /\ tokens' = setTokens(data, now).stored
  /\ page' = [(IF "access_token" \in DOMAIN data THEN page ELSE noteFailure(page))
                EXCEPT !.pc = "authenticate"]
  /\ UNCHANGED <<items, now, sync, upstream, localStore, calls, uids, last>>

\* handleCallback's request rejects: lines 456-460
HandleCallbackRejects ==
  /\ page.pc = "exchange"
  /\ page' = [noteFailure(page) EXCEPT !.pc = "stopped", !.view = "error"]
  /\ UNCHANGED <<items, now, sync, upstream, localStore, calls, uids, last, procoreApi, tokens>>

\* authenticate() is called (lines 465, 111, 485) and runs to its return or
\* to the request of refreshAccessToken
Authenticate ==
  /\ page.pc = "authenticate"
  /\ page' = CASE authenticate(procoreApi, now) = "token" ->
                    afterAuthenticate(page, procoreApi.accessToken)
               [] authenticate(procoreApi, now) = "refresh" ->
                    [page EXCEPT !.pc = "refresh"]
               [] OTHER ->
                    afterAuthenticate([page EXCEPT !.redirected = TRUE], UndefinedValue)
  /\ UNCHANGED <<items, now, sync, upstream, localStore, calls, uids, last, procoreApi, tokens>>

\* refreshAccessToken's request is answered with a body (lines 79-81)
RefreshReturns(data) ==
  /\ page.pc = "refresh"
  /\ procoreApi' = setTokens(data, now).api
  /\ tokens' = setTokens(data, now).stored
  /\ page' = afterAuthenticate(IF "access_token" \in DOMAIN data THEN page
                               ELSE noteFailure(page),
                               Prop(data, "access_token"))
  /\ UNCHANGED <<items, now, sync, upstream, localStore, calls, uids, last>>

\* refreshAccessToken's request rejects: initialize shows the login button
\* (lines 467-470), renderProjectSelector an error (lines 535-538)
RefreshRejects ==
  /\ page.pc = "refresh"
  /\ page' = [noteFailure(page) EXCEPT
                !.pc = "stopped",
                !.view = CASE page.caller = "initialize" -> "login"
                           [] page.caller = "request" -> "error"
                           [] OTHER -> @]
  /\ UNCHANGED <<items, now, sync, upstream, localStore, calls, uids, last, procoreApi, tokens>>

\* the request of line 123 is answered: lines 125-129, then the next
\* request of renderProjectSelector, the project list after the last one, or
\* the catch of lines 535-538
ResponseReturns(ok) ==
  /\ page.pc = "response"
  /\ page' = IF ~ok THEN [page EXCEPT !.pc = "stopped", !.view = "error"]
             ELSE IF page.requests + 1 < SelectorRequests
                  THEN [page EXCEPT !.pc = "authenticate", !.requests = @ + 1]
                  ELSE [page EXCEPT !.pc = "stopped", !.requests = @ + 1, !.view = "projects"]
  /\ UNCHANGED <<items, now, sync, upstream, localStore, calls, uids, last, procoreApi, tokens>>

\* the login button's click handler (lines 484-486)
LoginClick ==
  /\ page.pc = "stopped"
  /\ page.view = "login"
  /\ ~page.redirected
  /\ page' = [page EXCEPT !.pc = "authenticate", !.caller = "button"]
  /\ UNCHANGED <<items, now, sync, upstream, localStore, calls, uids, last, procoreApi, tokens>>

InitAuth ==
  /\ items = <<>>
  /\ now = 1
  /\ sync = [r \in Runs |-> IdleRun]
  /\ upstream = <<>>
  /\ localStore = <<>>
  /\ calls = 0
  /\ uids = <<>>
  /\ last = [op |-> "none"]
  /\ procoreApi = NewProcoreAPI
  /\ tokens \in StoredSessions
  /\ page = ClosedPage

NextAuth ==
  \/ Tick
  \/ \E authCode \in BOOLEAN : PageLoad(authCode)
  \/ \E data \in TokenResponses : HandleCallbackReturns(data)
  \/ HandleCallbackRejects
  \/ Authenticate
  \/ \E data \in TokenResponses : RefreshReturns(data)
  \/ RefreshRejects
  \/ \E ok \in BOOLEAN : ResponseReturns(ok)
  \/ LoginClick

SpecAuth == InitAuth /\ [][NextAuth]_vars

\* C22: once the token exchange or the token refresh of initialize has
\* failed, the page does not show the project selector and sends the vendor
\* no request: it shows the error or the login button.
C22_FailedTokenRequestAborts ==
  FailedInInitialize(page) =>
    /\ page.view \in { "blank", "error", "login" }
    /\ \A i \in 1..Len(page.sent) : ~page.sent[i].afterFailure

\* C29: every request sent to the vendor carries a token that is there: a
\* non-empty string, never undefined or null.
C29_RequestsCarryAToken ==
  \A i \in 1..Len(page.sent) : IsTruthy(page.sent[i].token)

(***************************************************************************)
(* exportToCSV (lines 394-428), and the stores it is followed on.          *)
(***************************************************************************)
\* lines 395-400
csvHeaders ==
  << "ID", "Category", "Sub-Category", "Manufacturer", "Part Number",
     "Description", "Unit", "Quantity Available", "Quantity Allocated",
     "Total Quantity", "Reorder Threshold", "Reorder Quantity",
     "Location", "Cost", "Total Value", "Last Updated" >>

\* Number.prototype.toFixed(2) of an integer
toFixed2(n) == numberToString(n) \o ".00"

\* Date.prototype.toLocaleDateString of an instant of the epoch's first
\* day, in the en-US locale and UTC
toLocaleDateString(t) == "1/1/1970"

\* the array of lines 402-419 with each element as Array.prototype.join
\* writes it: a number in base 10, null as the empty string
exportRow(item) ==
  << IF item.id = Null THEN "" ELSE item.id,
     item.category,
     item.subCategory,
     item.manufacturer,
     item.partNumber,
     item.description,
     item.unitOfMeasure,
     numberToString(item.quantityAvailable),
     numberToString(item.quantityAllocated),
     numberToString(totalQuantity(item)),
     numberToString(item.reorderThreshold),
     numberToString(item.reorderQuantity),
     item.location,
     numberToString(item.cost),
     toFixed2(item.cost * totalQuantity(item)),
     toLocaleDateString(item.lastUpdated) >>

\* Array.prototype.join of texts
join(texts, separator) ==
  LET joined[i \in 0..Len(texts)] ==
        IF i = 0 THEN ""
        ELSE IF i = 1 THEN texts[1] ELSE joined[i - 1] \o separator \o texts[i]
  IN joined[Len(texts)]

\* String.prototype.split on a one-character separator, what a reader of
\* the file does with a line: the texts between one separator and the next
split(text, separator) ==
  LET cuts == { 0, Len(text) + 1 } \cup
              { i \in 1..Len(text) : SubSeq(text, i, i) = separator }
      cut(k) == CHOOSE p \in cuts : Cardinality({ q \in cuts : q < p }) = k
  IN [k \in 1..(Cardinality(cuts) - 1) |-> SubSeq(text, cut(k - 1) + 1, cut(k) - 1)]

\* lines 394-427
exportToCSV(its) ==
  join(<< join(csvHeaders, ",") >> \o [i \in 1..Len(its) |-> join(exportRow(its[i]), ",")],
       "\n")

\* the UI collaborator asks for the CSV text
ExportToCSV ==
  /\ Quiescent
  /\ calls < MaxCalls
  /\ calls' = calls + 1
  /\ last' = [op |-> "exportToCSV", error |-> "none", csvContent |-> exportToCSV(items),
              before |-> items, beforeUids |-> uids]
  /\ UNCHANGED <<procoreApi, tokens, page, items, now, sync, upstream, localStore, uids>>

\* forms whose texts are plain, empty, or hold a comma
ExportForms ==
  { SampleForm("Cable", Cat6Cable, 10, 1, 0, 1, Warehouse),
    SampleForm("Fiber Optics", FiberPatch, 20, 1, 1, 0, Warehouse),
    SampleForm("Cable", "Cat6 Cable, Blue", 12, 2, 1, 0, "Job Site"),
    SampleForm("Connectors", "RJ45 connector", 1, 3, 0, 2, "Shelf 3, Bay B"),
    SampleForm(EmptyString, "Patch panel", 0, 0, 0, 0, EmptyString) }

ExportStores == { storeOf(forms) : forms \in ListsUpTo(ExportForms, MaxRecords) }

InitExport ==
  /\ items \in ExportStores
  /\ now = Len(items) + 1
  /\ sync = [r \in Runs |-> IdleRun]
  /\ upstream = <<>>
  /\ localStore = <<>>
  /\ calls = 0
  /\ uids = [i \in 1..Len(items) |-> i]
  /\ last = [op |-> "none"]
  /\ NoSession

NextExport ==
  \/ Tick
  \/ ExportToCSV

SpecExport == InitExport /\ [][NextExport]_vars

\* C23: the text exportToCSV returns is the header line with the sixteen
\* column names, then one line per record of the store, in the store's
\* order, and splitting a record's line on the comma gives back, column by
\* column, the sixteen values exported for that record.
C23_RowsSplitBack ==
  last.op = "exportToCSV" =>
    LET lines == split(last.csvContent, "\n")
    IN /\ Len(lines) = Len(last.before) + 1
       /\ split(lines[1], ",") = csvHeaders
       /\ \A i \in 1..Len(last.before) :
            split(lines[i + 1], ",") = exportRow(last.before[i])

(***************************************************************************)
(* The UI's handlers on a signed-in page: loadProject (lines 542-560), the *)
(* item form (lines 837-880), the adjustment form (lines 971-1022) and the *)
(* delete button (lines 1025-1045). Each of the last three changes the     *)
(* store through the manager and then calls saveInventory (lines 258-274)  *)
(* for the current project without awaiting it.                            *)
(***************************************************************************)
MaxClicks == 2

MaxOpens == 2

\* what the vendor holds for each project: one record, of that project
StoredRecord(p) ==
  toJSON(LVInventoryItem(Spread(FormData(PartA, Cat6Cable, MaxQty, 0),
                                [id |-> "0", projectId |-> p]), 0))

VendorCollections == [p \in Projects |-> << StoredRecord(p) >>]

GoodSession ==
  [accessToken |-> "tokenA", refreshToken |-> "refreshA", tokenExpiry |-> DefaultExpiresIn]

\* the handlers are there once the inventory interface is rendered (line
\* 554), and nothing of loadProject is in flight
InterfaceShown == page.pc = "stopped" /\ page.view = "inventory"

\* line 866, 995 or 1034: saveInventory(this.currentProject.id) is called
\* and runs to its await; its request carries the store its as it is then
callSaveInventory(pg, its) ==
  [pg EXCEPT !.clicks = @ + 1,
             !.saving = Append(@, [projectId |-> pg.currentProject, body |-> serialize(its)])]

\* the project select's change handler: loadProject runs to its first
\* await (lines 543-548)
SelectProject(p) ==
  /\ Quiescent
  /\ page.pc = "stopped"
  /\ page.view \in { "projects", "inventory", "loadError" }
  /\ page.opens < MaxOpens
  /\ page' = [page EXCEPT !.pc = "getProject", !.opening = p, !.view = "loading",
                          !.opens = @ + 1]
  /\ UNCHANGED <<procoreApi, tokens, items, now, sync, upstream, localStore, calls, uids, last>>

\* getProject's request ends: line 548 assigns currentProject and line 551
\* calls loadInventory, or the catch of lines 556-559 shows the error
GetProjectReturns(ok) ==
  /\ Quiescent
  /\ page.pc = "getProject"
  /\ page' = IF ok
             THEN [page EXCEPT !.pc = "loadInventory", !.currentProject = page.opening]
             ELSE [page EXCEPT !.pc = "stopped", !.view = "loadError"]
  /\ UNCHANGED <<procoreApi, tokens, items, now, sync, upstream, localStore, calls, uids, last>>

\* loadInventory's request ends (lines 241-252) and line 554 renders the
\* interface
LoadInventoryReturns ==
  /\ Quiescent
  /\ page.pc = "loadInventory"
  /\ \E fetched \in { <<>> } \cup
                     (IF page.opening \in DOMAIN upstream
                      THEN { <<upstream[page.opening]>> } ELSE {}) :
       LET stored == IF page.opening \in DOMAIN localStore
                     THEN <<localStore[page.opening]>> ELSE <<>>
           loaded == loadInventory(items, fetched, stored, now)
       IN /\ items' = loaded
          /\ uids' = IF fetched = <<>> /\ stored = <<>>
                     THEN uids
                     ELSE [i \in 1..Len(loaded) |-> nthUnusedUid(i)]
          /\ last' = [op |-> "loadInventory", projectId |-> page.opening, error |-> "none",
                      fetched |-> fetched, stored |-> stored,
                      before |-> items, beforeUids |-> uids]
  /\ page' = [page EXCEPT !.pc = "stopped", !.view = "inventory"]
  /\ UNCHANGED <<procoreApi, tokens, now, sync, upstream, localStore, calls>>

\* the item form is submitted for a new record (lines 840-866)
SubmitItemForm(formData) ==
  /\ Quiescent
  /\ InterfaceShown
  /\ page.clicks < MaxClicks
  /\ Len(items) < MaxItems
  /\ items' = addItem(items, Spread(formData, [projectId |-> page.currentProject]), now)
  /\ uids' = Append(uids, freshUid)
  /\ last' = [op |-> "addItem", error |-> "none", before |-> items, beforeUids |-> uids]
  /\ page' = callSaveInventory(page, items')
  /\ UNCHANGED <<procoreApi, tokens, now, sync, upstream, localStore, calls>>

\* the item form is submitted for the record it was opened on
SubmitEditForm(itemId, formData) ==
  /\ Quiescent
  /\ InterfaceShown
  /\ page.clicks < MaxClicks
  /\ findIndex(items, itemId) # 0
  /\ items' = updateItem(items, itemId,
                         Spread(formData, [projectId |-> page.currentProject]), now).items
  /\ last' = [op |-> "updateItem", itemId |-> itemId, error |-> "none",
              before |-> items, beforeUids |-> uids]
  /\ page' = callSaveInventory(page, items')
  /\ UNCHANGED <<procoreApi, tokens, now, sync, upstream, localStore, calls, uids>>

\* the adjustment form is submitted (lines 975-1021): an error of
\* adjustQuantity skips the save
SubmitAdjustment(itemId, quantityChange, isAllocation) ==
  /\ Quiescent
  /\ InterfaceShown
  /\ page.clicks < MaxClicks
  /\ findIndex(items, itemId) # 0
  /\ LET r == adjustQuantity(items, itemId, quantityChange, isAllocation, now) IN
     /\ items' = r.items
     /\ last' = [op |-> "adjustQuantity", itemId |-> itemId, quantityChange |-> quantityChange,
                 isAllocation |-> isAllocation, error |-> r.error,
                 before |-> items, beforeUids |-> uids]
     /\ page' = IF r.error = "none" THEN callSaveInventory(page, r.items)
                ELSE [page EXCEPT !.clicks = @ + 1]
  /\ UNCHANGED <<procoreApi, tokens, now, sync, upstream, localStore, calls, uids>>

\* the delete button of a record, confirmed (lines 1026-1045)
ConfirmDelete(itemId) ==
  /\ Quiescent
  /\ InterfaceShown
  /\ page.clicks < MaxClicks
  /\ findIndex(items, itemId) # 0
  /\ items' = deleteItem(items, itemId).items
  /\ uids' = removeAt(uids, findIndex(items, itemId))
  /\ last' = [op |-> "deleteItem", itemId |-> itemId, error |-> "none",
              before |-> items, beforeUids |-> uids]
  /\ page' = callSaveInventory(page, items')
  /\ UNCHANGED <<procoreApi, tokens, now, sync, upstream, localStore, calls>>

\* the request of the i-th call of saveInventory in flight ends, well or
\* not (lines 260-268): the local write of the store as it is now follows
\* (line 271)
SaveInventoryRequestEnds(i, ok) ==
  /\ Quiescent
  /\ i \in 1..Len(page.saving)
  /\ upstream' = IF ok THEN put(upstream, page.saving[i].projectId, page.saving[i].body)
                 ELSE upstream
  /\ localStore' = put(localStore, page.saving[i].projectId, serialize(items))
  /\ page' = [page EXCEPT !.saving = removeAt(@, i)]
  /\ last' = [op |-> "saveInventory", projectId |-> page.saving[i].projectId, ok |-> ok,
              sent |-> page.saving[i].body, written |-> serialize(items),
              error |-> "none", before |-> items, beforeUids |-> uids]
  /\ UNCHANGED <<procoreApi, tokens, items, now, sync, calls, uids>>

InitSave ==
  /\ items = <<>>
  /\ now = 1
  /\ sync = [r \in Runs |-> IdleRun]
  /\ upstream = VendorCollections
  /\ localStore = <<>>
  /\ calls = 0
  /\ uids = <<>>
  /\ last = [op |-> "none"]
  /\ tokens = GoodSession
  /\ procoreApi = loadTokens(GoodSession)
  /\ page = [ClosedPage EXCEPT !.pc = "stopped", !.view = "projects", !.loads = 1]

NextSave ==
  \/ Tick
  \/ \E p \in Projects : SelectProject(p)
  \/ \E ok \in BOOLEAN : GetProjectReturns(ok)
  \/ LoadInventoryReturns
  \/ \E f \in Forms : SubmitItemForm(f)
  \/ \E id \in PassableIds, f \in Updates : SubmitEditForm(id, f)
  \/ \E id \in PassableIds, a \in Adjustments :
       SubmitAdjustment(id, a.quantityChange, a.isAllocation)
  \/ \E id \in PassableIds : ConfirmDelete(id)
  \/ \E i \in 1..Len(page.saving), ok \in BOOLEAN : SaveInventoryRequestEnds(i, ok)

SpecSave == InitSave /\ [][NextSave]_vars

\* C26: a call of saveInventory(p) made while the store held records of p
\* only writes under p's local key records of p only, whatever was loaded
\* while its request was in flight.
C26_LocalWriteKeepsToProject ==
  ( /\ last.op = "saveInventory"
    /\ \A i \in 1..Len(last.sent) : last.sent[i].projectId = last.projectId )
  => \A i \in 1..Len(last.written) : last.written[i].projectId = last.projectId

\* C27: a call of saveInventory whose request succeeded has sent to the
\* vendor and written to the local entry the same collection.
C27_SentIsWritten ==
  (last.op = "saveInventory" /\ last.ok) => last.sent = last.written

(***************************************************************************)
(* Two calls of syncWithPurchaseOrders on an empty store, the second made  *)
(* after the first has returned, the vendor listing the same orders and    *)
(* line items to both; nothing else changes the store.                     *)
(***************************************************************************)
NextRerun ==
  \/ Tick
  \/ StartSync("run1")
  \/ sync["run1"].pc = "done" /\ StartSync("run2")
  \/ \E pos \in PurchaseOrderLists : PurchaseOrdersAnswer("run1", pos)
  \/ PurchaseOrdersAnswer("run2", sync["run1"].purchaseOrders)
  \/ \E r \in DOMAIN sync :
       \/ RequestFails(r)
       \/ SkipOrder(r)
       \/ RequestLineItems(r)
       \/ LineItemsReturn(r)
       \/ ProcessLineItem(r)
       \/ EndOfLineItems(r)
       \/ CallSaveInventory(r)
       \/ ReturnZero(r)
       \/ SaveInventoryReturns(r)

SpecRerun == InitRace /\ [][NextRerun]_vars

\* the store as the first call left it: what its saveInventory sent, or
\* the empty store it started on when it touched nothing
AfterFirstRun == IF sync["run1"].saves = 1 THEN sync["run1"].saveBody ELSE <<>>

\* C28: when the second call has returned, the store holds as many records
\* as after the first call, each with the quantityAvailable it had then.
C28_SecondRunChangesNothing ==
  (sync["run1"].pc = "done" /\ sync["run2"].pc = "done") =>
    /\ Len(items) = Len(AfterFirstRun)
    /\ \A i \in 1..Len(items) :
         items[i].quantityAvailable = AfterFirstRun[i].quantityAvailable

====
